---- MODULE Spec2Model ----
(***************************************************************************)
(* A model of the CommandParser library (CommandParser.h): the command     *)
(* registry, processCommand, and the argument parsers strToInt and         *)
(* parseString.                                                            *)
(*                                                                         *)
(* Text is modelled as TLA+ strings, a character as a string of length 1,  *)
(* and the terminating '\0' of a C string as the position right after the  *)
(* last character.  Positions are 0-based as in the code.                  *)
(***************************************************************************)
EXTENDS Integers, Sequences, FiniteSets, TLC

(***************************************************************************)
(* Characters                                                              *)
(***************************************************************************)

\* the terminator of a C string
NUL == "NUL"

\* what a read past the terminator yields: a byte outside the string
OOB == "OOB"

\* the printable ASCII characters of codes 32..95 and 97..126, in code order
PrintableLow ==
  " !\"#$%&'()*+,-./0123456789:;<=>?@ABCDEFGHIJKLMNOPQRSTUVWXYZ[\\]^_"

PrintableHigh == "abcdefghijklmnopqrstuvwxyz{|}~"

Chars ==
  { SubSeq(PrintableLow, k, k) : k \in 1..Len(PrintableLow) } \cup
  { SubSeq(PrintableHigh, k, k) : k \in 1..Len(PrintableHigh) }

OrdTable ==
  [ c \in Chars |->
      IF \E k \in 1..Len(PrintableLow) : SubSeq(PrintableLow, k, k) = c
      THEN 31 + CHOOSE k \in 1..Len(PrintableLow) : SubSeq(PrintableLow, k, k) = c
      ELSE 96 + CHOOSE k \in 1..Len(PrintableHigh) : SubSeq(PrintableHigh, k, k) = c ]

\* the code of a character
Ord(c) == IF c = NUL THEN 0 ELSE OrdTable[c]

\* buf[p] for a C string buf
At(buf, p) ==
  IF p < Len(buf) THEN SubSeq(buf, p + 1, p + 1)
  ELSE IF p = Len(buf) THEN NUL
  ELSE OOB

\* the C string starting at buf + p
From(buf, p) == SubSeq(buf, p + 1, Len(buf))

\* what a piece of code does with the bytes of the string it scans: the
\* values its cursor takes, in order, and the indices it reads.  ScanThen
\* is one scan followed by another, ScanShift the scan of a callee that was
\* handed the string from index by on, and ScanBefore puts a scan in front
\* of the one recorded in the result r of the code that follows
NoScan == [moves |-> <<>>, reads |-> {}]
Scanned(moves, reads) == [moves |-> moves, reads |-> reads]
ScanThen(a, b) == [moves |-> a.moves \o b.moves, reads |-> a.reads \cup b.reads]
ScanShift(a, by) ==
  [moves |-> [k \in 1..Len(a.moves) |-> a.moves[k] + by],
   reads |-> { x + by : x \in a.reads }]
ScanBefore(a, r) == [r EXCEPT !.scan = ScanThen(a, @)]

(***************************************************************************)
(* Integer types.  int64_t and uint64_t are modelled as two's complement   *)
(* integers of IntBits bits, with the limits scaled accordingly.           *)
(***************************************************************************)

IntBits == 8

RECURSIVE Pow(_, _)
Pow(b, e) == IF e = 0 THEN 1 ELSE b * Pow(b, e - 1)

LLONG_MIN == -Pow(2, IntBits - 1)
LLONG_MAX == Pow(2, IntBits - 1) - 1
ULLONG_MAX == Pow(2, IntBits) - 1

\* how a build treats signed overflow, which is undefined behaviour:
\* two's complement wrap-around, or a trap that aborts the program
UBModes == {"wrap", "trap"}

IsSigned(T) == T = "int64_t"

InRange(T, x) ==
  IF IsSigned(T) THEN LLONG_MIN <= x /\ x <= LLONG_MAX
  ELSE 0 <= x /\ x <= ULLONG_MAX

\* the value of type T congruent to x
Wrap(T, x) ==
  IF IsSigned(T)
  THEN ((x - LLONG_MIN) % Pow(2, IntBits)) + LLONG_MIN
  ELSE x % Pow(2, IntBits)

\* C integer division, which truncates toward zero (b > 0)
CDiv(a, b) == IF a >= 0 THEN a \div b ELSE -((-a) \div b)

\* an arithmetic result x computed in type T: unsigned arithmetic wraps,
\* signed overflow is undefined behaviour
Overflows(T, x) == IsSigned(T) /\ ~InRange(T, x)

(***************************************************************************)
(* strToInt                                                                *)
(***************************************************************************)

\* the digit the loop of strToInt reads from character c in the given
\* base, or -1 where the loop breaks
DigitOf(base, c) ==
  LET o == Ord(c) IN
  IF c = OOB THEN -1
  ELSE IF base >= 2 /\ Ord("0") <= o /\ o <= Ord("1") THEN o - Ord("0")
  ELSE IF base >= 8 /\ Ord("2") <= o /\ o <= Ord("7") THEN (o - Ord("2")) + 2
  ELSE IF base >= 10 /\ Ord("8") <= o /\ o <= Ord("9") THEN (o - Ord("8")) + 8
  ELSE IF base >= 16 /\ Ord("a") <= o /\ o <= Ord("f") THEN (o - Ord("a")) + 10
  ELSE IF base >= 16 /\ Ord("A") <= o /\ o <= Ord("F") THEN (o - Ord("A")) + 10
  ELSE -1

\* the range checks before the multiplication and before the addition
MulOutOfRange(value, base, min_value, max_value) ==
  value < CDiv(min_value, base) \/ value > CDiv(max_value, base)

AddOutOfRange(isNegative, value, digit, min_value, max_value) ==
  IF isNegative THEN value < min_value + digit ELSE value > max_value - digit

\* the while loop and the return of strToInt; the result is the number of
\* bytes read (0 on failure), the value left in *value, whether the
\* build trapped on a signed overflow, and the scan of buf
RECURSIVE StrToIntLoop(_, _, _, _, _, _, _, _, _, _)
StrToIntLoop(T, ub, buf, position, base, isNegative, value, digit, min_value, max_value) ==
  LET d == DigitOf(base, At(buf, position)) IN
  IF d = -1
  THEN \* break
       IF isNegative /\ Overflows(T, value * (-1)) /\ ub = "trap"
       THEN [bytesRead |-> 0, value |-> value, trapped |-> TRUE,
             scan |-> Scanned(<<>>, {position})]
       ELSE [bytesRead |-> IF digit = -1 THEN 0 ELSE position,
             value |-> IF isNegative THEN Wrap(T, value * (-1)) ELSE value,
             trapped |-> FALSE,
             scan |-> Scanned(<<>>, {position})]
  ELSE IF MulOutOfRange(value, base, min_value, max_value)
  THEN [bytesRead |-> 0, value |-> value, trapped |-> FALSE,
             scan |-> Scanned(<<>>, {position})]
  ELSE IF Overflows(T, value * base) /\ ub = "trap"
  THEN [bytesRead |-> 0, value |-> value, trapped |-> TRUE,
             scan |-> Scanned(<<>>, {position})]
  ELSE LET v1 == Wrap(T, value * base) IN
       IF AddOutOfRange(isNegative, v1, d, min_value, max_value)
       THEN [bytesRead |-> 0, value |-> v1, trapped |-> FALSE,
             scan |-> Scanned(<<>>, {position})]
       ELSE IF Overflows(T, v1 + d) /\ ub = "trap"
       THEN [bytesRead |-> 0, value |-> v1, trapped |-> TRUE,
             scan |-> Scanned(<<>>, {position})]
       ELSE ScanBefore(Scanned(<<position + 1>>, {position}),
                       StrToIntLoop(T, ub, buf, position + 1, base, isNegative,
                                    Wrap(T, v1 + d), d, min_value, max_value))

\* whether strToInt parses a sign: only for a type with negative values
HasSignAnyType(buf, min_value) == At(buf, 0) = "+" \/ At(buf, 0) = "-"

HasSign(buf, min_value) ==
  min_value < 0 /\ (At(buf, 0) = "+" \/ At(buf, 0) = "-")

\* the bytes the tests for a base identifier at position read: the second
\* one only after a 0
BaseReadsEager(buf, position) == {position, position + 1}

BaseReads(buf, position) ==
  IF At(buf, position) = "0" THEN {position, position + 1} ELSE {position}

\* strToInt<T>(buf, &value, min_value, max_value)
StrToInt(T, ub, buf, min_value, max_value) ==
  LET hasSign == HasSign(buf, min_value)
      isNegative == hasSign /\ At(buf, 0) = "-"
      p0 == IF hasSign THEN 1 ELSE 0
      base == IF At(buf, p0) = "0" /\ At(buf, p0 + 1) = "b" THEN 2
              ELSE IF At(buf, p0) = "0" /\ At(buf, p0 + 1) = "o" THEN 8
              ELSE IF At(buf, p0) = "0" /\ At(buf, p0 + 1) = "x" THEN 16
              ELSE 10
      p1 == IF base = 10 THEN p0 ELSE p0 + 2
  IN ScanBefore(Scanned(<<0>> \o (IF hasSign THEN <<1>> ELSE <<>>)
                             \o (IF base = 10 THEN <<>> ELSE <<p0 + 2>>),
                        {0} \cup BaseReads(buf, p0)),
                StrToIntLoop(T, ub, buf, p1, base, isNegative, 0, -1,
                             min_value, max_value))

MinOf(T) == IF IsSigned(T) THEN LLONG_MIN ELSE 0
MaxOf(T) == IF IsSigned(T) THEN LLONG_MAX ELSE ULLONG_MAX

(***************************************************************************)
(* The template arguments of CommandParser.  The model instantiates        *)
(* CommandParser<2, 2, 2, 2, 64>.                                          *)
(***************************************************************************)

MAX_COMMANDS == 2
MAX_COMMAND_ARGS == 2
MAX_COMMAND_NAME_LENGTH == 2
MAX_COMMAND_ARG_SIZE == 2
MAX_RESPONSE_SIZE == 64

(***************************************************************************)
(* union Argument.  A slot records the member written last and its value.  *)
(* The value of asString is the char array of MAX_COMMAND_ARG_SIZE + 1     *)
(* bytes, a byte being its code 0..255, or Indet where the byte is what    *)
(* another member left there.                                              *)
(***************************************************************************)

Indet == -1

\* a slot of the zero-initialised commandArgs array
ZeroArgument == [member |-> "zero", value |-> 0]

\* the asString array of a slot, as parseString finds it
AsString(slot) ==
  IF slot.member = "asString" THEN slot.value
  ELSE [k \in 0..MAX_COMMAND_ARG_SIZE |-> IF slot.member = "zero" THEN 0 ELSE Indet]

\* the C string held in an asString array: the bytes before the first 0
RECURSIVE CStr(_, _)
CStr(arr, k) ==
  IF k > MAX_COMMAND_ARG_SIZE \/ arr[k] = 0 THEN <<>>
  ELSE <<arr[k]>> \o CStr(arr, k + 1)

(***************************************************************************)
(* parseString                                                             *)
(***************************************************************************)

\* the value of a hex digit, or -1
HexValLenient(c) ==
  LET o == Ord(c) IN
  IF c = OOB \/ c = NUL THEN -1
  ELSE IF Ord("0") <= o /\ o <= Ord("9") THEN o - Ord("0")
  ELSE IF Ord("a") <= o /\ o <= Ord("z") THEN (o - Ord("a")) + 10
  ELSE IF Ord("A") <= o /\ o <= Ord("Z") THEN (o - Ord("A")) + 10
  ELSE -1

HexVal(c) ==
  LET o == Ord(c) IN
  IF c = OOB THEN -1
  ELSE IF Ord("0") <= o /\ o <= Ord("9") THEN o - Ord("0")
  ELSE IF Ord("a") <= o /\ o <= Ord("f") THEN (o - Ord("a")) + 10
  ELSE IF Ord("A") <= o /\ o <= Ord("F") THEN (o - Ord("A")) + 10
  ELSE -1

\* the byte an escape letter stands for, or -1 for an unknown escape
EscapeByteLiteral(c) ==
  IF c \in {"n", "r", "t", "\"", "\\"} THEN Ord(c) ELSE -1

EscapeByte(c) ==
  CASE c = "n" -> 10
    [] c = "r" -> 13
    [] c = "t" -> 9
    [] c = "\"" -> 34
    [] c = "\\" -> 92
    [] OTHER -> -1

\* a variant of the loop without the bound i < MAX_COMMAND_ARG_SIZE
RECURSIVE ParseStringLoopUnbounded(_, _, _, _, _, _)
ParseStringLoopUnbounded(buf, isQuoted, readCount, i, output, written) ==
  LET c == At(buf, readCount)
      Fail(out, w, scan) ==
        [readCount |-> 0, output |-> out, written |-> w, scan |-> scan]
      Finish(reads) ==
        IF isQuoted /\ c # "\""
        THEN Fail(output, written, Scanned(<<>>, reads))
        ELSE [readCount |-> IF isQuoted THEN readCount + 1 ELSE readCount,
              output |-> [output EXCEPT ![i] = 0],
              written |-> written \cup {i},
              scan |-> Scanned(IF isQuoted THEN <<readCount + 1>> ELSE <<>>, reads)]
  IN
  IF ~(c # NUL)
  THEN Finish(IF i < MAX_COMMAND_ARG_SIZE \/ isQuoted THEN {readCount} ELSE {})
  ELSE IF (IF isQuoted THEN c = "\"" ELSE c = " ") THEN Finish({readCount})
  ELSE IF c = "\\"
  THEN LET e == At(buf, readCount + 1) IN
       IF e = "x"
       THEN LET h1 == HexVal(At(buf, readCount + 2))
                h2 == HexVal(At(buf, readCount + 3))
            IN IF h1 = -1
               THEN Fail([output EXCEPT ![i] = 0], written \cup {i},
                         Scanned(<<readCount + 1, readCount + 2>>,
                                 readCount..(readCount + 2)))
               ELSE IF h2 = -1
               THEN Fail([output EXCEPT ![i] = h1], written \cup {i},
                         Scanned(<<readCount + 1, readCount + 2, readCount + 3>>,
                                 readCount..(readCount + 3)))
               ELSE ScanBefore(
                      Scanned(<<readCount + 1, readCount + 2, readCount + 3,
                                readCount + 4>>, readCount..(readCount + 3)),
                      ParseStringLoopUnbounded(buf, isQuoted, readCount + 4, i + 1,
                                      [output EXCEPT ![i] = (h1 * 16 + h2) % 256],
                                      written \cup {i}))
       ELSE IF e \in {NUL, OOB} \/ EscapeByte(e) = -1
       THEN Fail(output, written,
                 Scanned(<<readCount + 1>>, {readCount, readCount + 1}))
       ELSE ScanBefore(
              Scanned(<<readCount + 1, readCount + 2>>, {readCount, readCount + 1}),
              ParseStringLoopUnbounded(buf, isQuoted, readCount + 2, i + 1,
                              [output EXCEPT ![i] = EscapeByte(e)], written \cup {i}))
  ELSE ScanBefore(Scanned(<<readCount + 1>>, {readCount}),
                  ParseStringLoopUnbounded(buf, isQuoted, readCount + 1, i + 1,
                                  [output EXCEPT ![i] = Ord(c)], written \cup {i}))

\* a variant of the loop that runs one iteration further
RECURSIVE ParseStringLoopOneMore(_, _, _, _, _, _)
ParseStringLoopOneMore(buf, isQuoted, readCount, i, output, written) ==
  LET c == At(buf, readCount)
      Fail(out, w, scan) ==
        [readCount |-> 0, output |-> out, written |-> w, scan |-> scan]
      Finish(reads) ==
        IF isQuoted /\ c # "\""
        THEN Fail(output, written, Scanned(<<>>, reads))
        ELSE [readCount |-> IF isQuoted THEN readCount + 1 ELSE readCount,
              output |-> [output EXCEPT ![i] = 0],
              written |-> written \cup {i},
              scan |-> Scanned(IF isQuoted THEN <<readCount + 1>> ELSE <<>>, reads)]
  IN
  IF ~(i < MAX_COMMAND_ARG_SIZE + 1 /\ c # NUL)
  THEN Finish(IF i < MAX_COMMAND_ARG_SIZE + 1 \/ isQuoted THEN {readCount} ELSE {})
  ELSE IF (IF isQuoted THEN c = "\"" ELSE c = " ") THEN Finish({readCount})
  ELSE IF c = "\\"
  THEN LET e == At(buf, readCount + 1) IN
       IF e = "x"
       THEN LET h1 == HexVal(At(buf, readCount + 2))
                h2 == HexVal(At(buf, readCount + 3))
            IN IF h1 = -1
               THEN Fail([output EXCEPT ![i] = 0], written \cup {i},
                         Scanned(<<readCount + 1, readCount + 2>>,
                                 readCount..(readCount + 2)))
               ELSE IF h2 = -1
               THEN Fail([output EXCEPT ![i] = h1], written \cup {i},
                         Scanned(<<readCount + 1, readCount + 2, readCount + 3>>,
                                 readCount..(readCount + 3)))
               ELSE ScanBefore(
                      Scanned(<<readCount + 1, readCount + 2, readCount + 3,
                                readCount + 4>>, readCount..(readCount + 3)),
                      ParseStringLoopOneMore(buf, isQuoted, readCount + 4, i + 1,
                                      [output EXCEPT ![i] = (h1 * 16 + h2) % 256],
                                      written \cup {i}))
       ELSE IF e \in {NUL, OOB} \/ EscapeByte(e) = -1
       THEN Fail(output, written,
                 Scanned(<<readCount + 1>>, {readCount, readCount + 1}))
       ELSE ScanBefore(
              Scanned(<<readCount + 1, readCount + 2>>, {readCount, readCount + 1}),
              ParseStringLoopOneMore(buf, isQuoted, readCount + 2, i + 1,
                              [output EXCEPT ![i] = EscapeByte(e)], written \cup {i}))
  ELSE ScanBefore(Scanned(<<readCount + 1>>, {readCount}),
                  ParseStringLoopOneMore(buf, isQuoted, readCount + 1, i + 1,
                                  [output EXCEPT ![i] = Ord(c)], written \cup {i}))

\* the for loop of parseString and what follows it.  The result is the
\* value returned (0 on failure), the output array as left behind, the
\* set of indices of output that were written, and the scan of buf
RECURSIVE ParseStringLoop(_, _, _, _, _, _)
ParseStringLoop(buf, isQuoted, readCount, i, output, written) ==
  LET c == At(buf, readCount)
      Fail(out, w, scan) ==
        [readCount |-> 0, output |-> out, written |-> w, scan |-> scan]
      Finish(reads) ==
        IF isQuoted /\ c # "\""
        THEN Fail(output, written, Scanned(<<>>, reads))
        ELSE [readCount |-> IF isQuoted THEN readCount + 1 ELSE readCount,
              output |-> [output EXCEPT ![i] = 0],
              written |-> written \cup {i},
              scan |-> Scanned(IF isQuoted THEN <<readCount + 1>> ELSE <<>>, reads)]
  IN
  IF ~(i < MAX_COMMAND_ARG_SIZE /\ c # NUL)
  THEN Finish(IF i < MAX_COMMAND_ARG_SIZE \/ isQuoted THEN {readCount} ELSE {})
  ELSE IF (IF isQuoted THEN c = "\"" ELSE c = " ") THEN Finish({readCount})
  ELSE IF c = "\\"
  THEN LET e == At(buf, readCount + 1) IN
       IF e = "x"
       THEN LET h1 == HexVal(At(buf, readCount + 2))
                h2 == HexVal(At(buf, readCount + 3))
            IN IF h1 = -1
               THEN Fail([output EXCEPT ![i] = 0], written \cup {i},
                         Scanned(<<readCount + 1, readCount + 2>>,
                                 readCount..(readCount + 2)))
               ELSE IF h2 = -1
               THEN Fail([output EXCEPT ![i] = h1], written \cup {i},
                         Scanned(<<readCount + 1, readCount + 2, readCount + 3>>,
                                 readCount..(readCount + 3)))
               ELSE ScanBefore(
                      Scanned(<<readCount + 1, readCount + 2, readCount + 3,
                                readCount + 4>>, readCount..(readCount + 3)),
                      ParseStringLoop(buf, isQuoted, readCount + 4, i + 1,
                                      [output EXCEPT ![i] = (h1 * 16 + h2) % 256],
                                      written \cup {i}))
       ELSE IF e \in {NUL, OOB} \/ EscapeByte(e) = -1
       THEN Fail(output, written,
                 Scanned(<<readCount + 1>>, {readCount, readCount + 1}))
       ELSE ScanBefore(
              Scanned(<<readCount + 1, readCount + 2>>, {readCount, readCount + 1}),
              ParseStringLoop(buf, isQuoted, readCount + 2, i + 1,
                              [output EXCEPT ![i] = EscapeByte(e)], written \cup {i}))
  ELSE ScanBefore(Scanned(<<readCount + 1>>, {readCount}),
                  ParseStringLoop(buf, isQuoted, readCount + 1, i + 1,
                                  [output EXCEPT ![i] = Ord(c)], written \cup {i}))

\* parseString(buf, output)
ParseString(buf, output) ==
  LET isQuoted == At(buf, 0) = "\"" IN
  ScanBefore(Scanned(<<0>> \o (IF isQuoted THEN <<1>> ELSE <<>>), {0}),
             ParseStringLoop(buf, isQuoted, IF isQuoted THEN 1 ELSE 0, 0, output, {}))

(***************************************************************************)
(* The C library functions the parser calls                                *)
(***************************************************************************)

\* strlen of a string argument
Strlen(str) == Len(str)

\* what strlcpy(dst, src, size) leaves in dst
Strlcpy(src, size) ==
  IF Len(src) <= size - 1 THEN src ELSE SubSeq(src, 1, size - 1)

\* what snprintf(response, size, ...) leaves in response, text being the
\* expansion of the format
Snprintf(size, text) ==
  IF Len(text) <= size - 1 THEN text ELSE SubSeq(text, 1, size - 1)

\* the expansion of %d for n >= 0
RECURSIVE ToDec(_)
ToDec(n) ==
  IF n < 10 THEN SubSeq("0123456789", n + 1, n + 1)
  ELSE ToDec(n \div 10) \o SubSeq("0123456789", (n % 10) + 1, (n % 10) + 1)

IsDec(c) == c \notin {NUL, OOB} /\ Ord("0") <= Ord(c) /\ Ord(c) <= Ord("9")

\* the number of decimal digits of buf starting at position p
RECURSIVE DecRun(_, _)
DecRun(buf, p) == IF IsDec(At(buf, p)) THEN 1 + DecRun(buf, p + 1) ELSE 0

\* the number written by the n decimal digits of buf starting at p
RECURSIVE DecNum(_, _, _)
DecNum(buf, p, n) ==
  IF n = 0 THEN 0
  ELSE DecNum(buf, p, n - 1) * 10 + (Ord(At(buf, p + n - 1)) - Ord("0"))

\* strtod(buf, &after) for decimal text: an optional sign, digits with an
\* optional fraction, and an optional exponent.  after is the number of
\* bytes converted (0 when there is no number) and the value is
\* sign * mant * 10^exp.  The scan recorded for this library function is
\* that of the bytes of the number and of the byte that ends it: strtod
\* reads the string it is given no further than its terminator, and its
\* own cursor is not the program's.  StrtodExponent reads the exponent at position p1,
\* after a mantissa with nFrac fraction digits; StrtodMantissa reads the
\* mantissa at position p0, after the sign
StrtodScan(after) == Scanned(<<>>, 0..after)

StrtodExponent(buf, neg, mant, nFrac, p1) ==
  LET hasE == At(buf, p1) \in {"e", "E"}
      eSign == hasE /\ At(buf, p1 + 1) \in {"+", "-"}
      pe == IF eSign THEN p1 + 2 ELSE p1 + 1
      nExp == IF hasE THEN DecRun(buf, pe) ELSE 0
  IN IF nExp = 0
     THEN [after |-> p1, value |-> [neg |-> neg, mant |-> mant, exp |-> -nFrac],
           scan |-> StrtodScan(p1)]
     ELSE [after |-> pe + nExp, scan |-> StrtodScan(pe + nExp),
           value |-> [neg |-> neg, mant |-> mant,
                      exp |-> (IF eSign /\ At(buf, p1 + 1) = "-"
                               THEN -DecNum(buf, pe, nExp) ELSE DecNum(buf, pe, nExp))
                              - nFrac]]

StrtodMantissa(buf, neg, p0, nInt) ==
  LET hasDot == At(buf, p0 + nInt) = "."
      nFrac == IF hasDot THEN DecRun(buf, p0 + nInt + 1) ELSE 0
  IN IF nInt + nFrac = 0
     THEN [after |-> 0, value |-> [neg |-> FALSE, mant |-> 0, exp |-> 0],
           scan |-> StrtodScan(0)]
     ELSE StrtodExponent(buf, neg,
                         DecNum(buf, p0, nInt) * Pow(10, nFrac)
                           + DecNum(buf, p0 + nInt + 1, nFrac),
                         nFrac,
                         IF hasDot THEN p0 + nInt + 1 + nFrac ELSE p0 + nInt)

Strtod(buf) ==
  IF At(buf, 0) \in {"+", "-"}
  THEN StrtodMantissa(buf, At(buf, 0) = "-", 1, DecRun(buf, 1))
  ELSE StrtodMantissa(buf, FALSE, 0, DecRun(buf, 0))

(***************************************************************************)
(* The state of a CommandParser object and of its caller                   *)
(***************************************************************************)

VARIABLES
  numCommands,         \* size_t numCommands
  commandDefinitions,  \* struct Command commandDefinitions[MAX_COMMANDS]
  commandArgs,         \* union Argument commandArgs[MAX_COMMAND_ARGS]
  response,            \* the caller's response buffer
  halted,              \* the program was aborted by a trap
  call,                \* the last call made: its arguments and its outcome
  nProcess             \* the number of processCommand calls made

vars == <<nProcess, call, numCommands, commandDefinitions, commandArgs, response, halted>>

\* a callback is a function pointer: 0 is nullptr, the handlers are 1, 2
nullptr == 0
Handlers == {1, 2}

\* a zero-initialised struct Command
ZeroCommand == [name |-> "", argTypes |-> "", callback |-> nullptr]

(***************************************************************************)
(* registerCommand                                                         *)
(***************************************************************************)

\* a variant whose loop stops one tag early: the last tag is never examined
ArgTypesValidButLast(argTypes) ==
  \A k \in 0..(Strlen(argTypes) - 2) : At(argTypes, k) \in {"d", "u", "i", "s"}

\* the switch over the characters of argTypes: every tag is d, u, i or s
ArgTypesValid(argTypes) ==
  \A k \in 0..(Strlen(argTypes) - 1) : At(argTypes, k) \in {"d", "u", "i", "s"}

\* the checks that make registerCommand return false
RegisterRejectsAtLimit(n, name, argTypes, callback) ==
  \/ n = MAX_COMMANDS
  \/ Strlen(name) >= MAX_COMMAND_NAME_LENGTH
  \/ Strlen(argTypes) > MAX_COMMAND_ARGS
  \/ callback = nullptr
  \/ ~ArgTypesValid(argTypes)

RegisterRejects(n, name, argTypes, callback) ==
  \/ n = MAX_COMMANDS
  \/ Strlen(name) > MAX_COMMAND_NAME_LENGTH
  \/ Strlen(argTypes) > MAX_COMMAND_ARGS
  \/ callback = nullptr
  \/ ~ArgTypesValid(argTypes)

\* the definition registerCommand stores at commandDefinitions[numCommands]
StoredCommand(name, argTypes, callback) ==
  [name |-> Strlcpy(name, MAX_COMMAND_NAME_LENGTH + 1),
   argTypes |-> Strlcpy(argTypes, MAX_COMMAND_ARGS + 1),
   callback |-> callback]

\* registerCommand(name, argTypes, callback) on a parser with n definitions
\* defs: the value returned and the registry it leaves
RegisterResultPrepend(n, defs, name, argTypes, callback) ==
  IF RegisterRejects(n, name, argTypes, callback)
  THEN [ret |-> FALSE, numCommands |-> n, commandDefinitions |-> defs]
  ELSE [ret |-> TRUE, numCommands |-> n + 1,
        commandDefinitions |->
          [k \in 0..(MAX_COMMANDS - 1) |->
             IF k = 0 THEN StoredCommand(name, argTypes, callback) ELSE defs[k - 1]]]

RegisterResultCopyFirst(n, defs, name, argTypes, callback) ==
  IF n = MAX_COMMANDS
  THEN [ret |-> FALSE, numCommands |-> n, commandDefinitions |-> defs]
  ELSE IF RegisterRejects(n, name, argTypes, callback)
  THEN [ret |-> FALSE, numCommands |-> n,
        commandDefinitions |-> [defs EXCEPT ![n] = StoredCommand(name, argTypes, callback)]]
  ELSE [ret |-> TRUE, numCommands |-> n + 1,
        commandDefinitions |-> [defs EXCEPT ![n] = StoredCommand(name, argTypes, callback)]]

RegisterResult(n, defs, name, argTypes, callback) ==
  IF RegisterRejects(n, name, argTypes, callback)
  THEN [ret |-> FALSE, numCommands |-> n, commandDefinitions |-> defs]
  ELSE [ret |-> TRUE, numCommands |-> n + 1,
        commandDefinitions |-> [defs EXCEPT ![n] = StoredCommand(name, argTypes, callback)]]

\* the state a registerCommand call with result r leaves
Registered(name, argTypes, callback, r) ==
  /\ numCommands' = r.numCommands
  /\ commandDefinitions' = r.commandDefinitions
  /\ call' = [op |-> "registerCommand", status |-> "returned", name |-> name,
              argTypes |-> argTypes, callback |-> callback, ret |-> r.ret]
  /\ UNCHANGED <<commandArgs, response, halted, nProcess>>

RegisterCommand(name, argTypes, callback) ==
  /\ ~halted
  /\ Registered(name, argTypes, callback,
                RegisterResult(numCommands, commandDefinitions, name, argTypes, callback))

(***************************************************************************)
(* processCommand                                                          *)
(***************************************************************************)

\* the loop that retrieves the command name: the number of bytes it copies
RECURSIVE NameLength(_, _)
NameLength(command, i) ==
  IF i < MAX_COMMAND_NAME_LENGTH /\ At(command, i) # " " /\ At(command, i) # NUL
  THEN NameLength(command, i + 1)
  ELSE i

\* the scan of the same loop, from index i
RECURSIVE NameScan(_, _)
NameScan(command, i) ==
  IF ~(i < MAX_COMMAND_NAME_LENGTH) THEN NoScan
  ELSE IF At(command, i) # " " /\ At(command, i) # NUL
  THEN ScanThen(Scanned(<<i + 1>>, {i}), NameScan(command, i + 1))
  ELSE Scanned(<<>>, {i})

\* the lookup loop: the index of the definition it stops at, scanning from
\* index k, or -1 when argTypes stays nullptr
RECURSIVE LookupLast(_, _, _, _)
LookupLast(defs, n, name, k) ==
  IF k >= n THEN -1
  ELSE LET later == LookupLast(defs, n, name, k + 1)
       IN IF later # -1 THEN later
          ELSE IF defs[k].name = name THEN k ELSE -1

RECURSIVE Lookup(_, _, _, _)
Lookup(defs, n, name, k) ==
  IF k >= n THEN -1
  ELSE IF defs[k].name = name THEN k
  ELSE Lookup(defs, n, name, k + 1)

\* the position after a run of spaces starting at p
SkipSpacesOne(command, p) == IF At(command, p) = " " THEN p + 1 ELSE p

RECURSIVE SkipSpaces(_, _)
SkipSpaces(command, p) ==
  IF At(command, p) = " " THEN SkipSpaces(command, p + 1) ELSE p

\* the scan of a loop that skips the spaces starting at p
RECURSIVE SpacesScan(_, _)
SpacesScan(command, p) ==
  IF At(command, p) = " "
  THEN ScanThen(Scanned(<<p + 1>>, {p}), SpacesScan(command, p + 1))
  ELSE Scanned(<<>>, {p})

\* the error messages
MsgUnknownCommand(name) == "parse error: unknown command name " \o name
MsgMissingWhitespaceZeroBased(n) ==
  "parse error: missing whitespace before arg " \o ToDec(n - 1)
MsgMissingWhitespace(n) == "parse error: missing whitespace before arg " \o ToDec(n)
MsgInvalid(typeName, n) == "parse error: invalid " \o typeName \o " for arg " \o ToDec(n)
MsgInvalidArgtype(c, n) == "parse error: invalid argtype " \o c \o " for arg " \o ToDec(n)
MsgTooManyArgsNoPrefix(k) == "too many args (expected " \o ToDec(k) \o ")"
MsgTooManyArgs(k) == "parse error: too many args (expected " \o ToDec(k) \o ")"

\* whether the byte after a parsed number ends the argument
EndsArgumentAlways(c) == TRUE

EndsArgument(c) == c = " " \/ c = NUL

\* what a case of the switch of the argument loop leaves: the slot written,
\* the bytes consumed, and whether the argument is rejected or the build
\* trapped, with the scan of buf.  ArgumentEndScan is the test of the
\* byte after a number of consumed bytes, which is c, and the advance of
\* the cursor over the number.  NumberArgument is the case of an integer read by strToInt with
\* result r, DoubleArgument the case of a double read by strtod
ArgumentEndScan(consumed, c) ==
  IF consumed = 0 THEN NoScan
  ELSE IF EndsArgument(c) THEN Scanned(<<consumed>>, {consumed})
  ELSE Scanned(<<>>, {consumed})

NumberArgument(member, typeName, r, buf) ==
  [slot |-> [member |-> member, value |-> r.value],
   consumed |-> r.bytesRead,
   failed |-> r.bytesRead = 0 \/ ~EndsArgument(At(buf, r.bytesRead)),
   trapped |-> r.trapped, typeName |-> typeName,
   scan |-> ScanThen(r.scan, ArgumentEndScan(r.bytesRead, At(buf, r.bytesRead)))]

DoubleArgument(r, buf) ==
  [slot |-> [member |-> "asDouble", value |-> r.value],
   consumed |-> r.after,
   failed |-> r.after = 0 \/ ~EndsArgument(At(buf, r.after)),
   trapped |-> FALSE, typeName |-> "double",
   scan |-> ScanThen(r.scan, ArgumentEndScan(r.after, At(buf, r.after)))]

StringArgument(r, slot) ==
  [slot |-> IF r.written = {} THEN slot ELSE [member |-> "asString", value |-> r.output],
   consumed |-> r.readCount,
   failed |-> r.readCount = 0,
   trapped |-> FALSE, typeName |-> "string",
   scan |-> ScanThen(r.scan, IF r.readCount = 0 THEN NoScan
                             ELSE Scanned(<<r.readCount>>, {}))]

\* the switch of the argument loop for the argument of type tag in buf,
\* stored in slot
ParseArgument(ub, tag, buf, slot) ==
  CASE tag = "d" -> DoubleArgument(Strtod(buf), buf)
    [] tag = "u" ->
         NumberArgument("asUInt64", "uint64_t",
                        StrToInt("uint64_t", ub, buf, 0, ULLONG_MAX), buf)
    [] tag = "i" ->
         NumberArgument("asInt64", "int64_t",
                        StrToInt("int64_t", ub, buf, LLONG_MIN, LLONG_MAX), buf)
    [] tag = "s" -> StringArgument(ParseString(buf, AsString(slot)), slot)
    [] OTHER ->
         [slot |-> slot, consumed |-> 0, failed |-> TRUE, trapped |-> FALSE,
          typeName |-> "argtype", scan |-> NoScan]

\* the loop over the argument types, from argument i (0-based) with the
\* cursor at position cursor; ArgumentParsed is the rest of an iteration
\* once the switch has left r for the argument starting at position start
RECURSIVE ParseArgs(_, _, _, _, _, _)
ArgumentParsedContinue(ub, command, argTypes, i, start, args, r) ==
  LET here == [status |-> "error", cursor |-> start,
               args |-> [args EXCEPT ![i] = r.slot], i |-> i,
               scan |-> ScanShift(r.scan, start),
               msg |-> IF r.typeName = "argtype"
                       THEN MsgInvalidArgtype(At(argTypes, i), i + 1)
                       ELSE MsgInvalid(r.typeName, i + 1)]
      later == ParseArgs(ub, command, argTypes, i + 1, start + r.consumed,
                         [args EXCEPT ![i] = r.slot])
  IN IF r.trapped
     THEN [status |-> "trap", cursor |-> start, args |-> [args EXCEPT ![i] = r.slot],
           i |-> i, msg |-> "", scan |-> ScanShift(r.scan, start)]
     ELSE IF r.failed /\ later.status # "error" THEN here
     ELSE later

ArgumentParsed(ub, command, argTypes, i, start, args, r) ==
  IF r.trapped
  THEN [status |-> "trap", cursor |-> start, args |-> [args EXCEPT ![i] = r.slot],
        i |-> i, msg |-> "", scan |-> ScanShift(r.scan, start)]
  ELSE IF r.failed
  THEN [status |-> "error", cursor |-> start, args |-> [args EXCEPT ![i] = r.slot],
        i |-> i, scan |-> ScanShift(r.scan, start),
        msg |-> IF r.typeName = "argtype"
                THEN MsgInvalidArgtype(At(argTypes, i), i + 1)
                ELSE MsgInvalid(r.typeName, i + 1)]
  ELSE ScanBefore(ScanShift(r.scan, start),
                  ParseArgs(ub, command, argTypes, i + 1, start + r.consumed,
                            [args EXCEPT ![i] = r.slot]))

ArgumentAt(ub, command, argTypes, i, start, args) ==
  ArgumentParsed(ub, command, argTypes, i, start, args,
                 ParseArgument(ub, At(argTypes, i), From(command, start), args[i]))

ParseArgs(ub, command, argTypes, i, cursor, args) ==
  IF At(argTypes, i) = NUL
  THEN [status |-> "parsed", cursor |-> cursor, args |-> args, i |-> i, msg |-> "",
        scan |-> NoScan]
  ELSE IF At(command, cursor) # " "
  THEN [status |-> "error", cursor |-> cursor, args |-> args, i |-> i,
        msg |-> MsgMissingWhitespace(i + 1), scan |-> Scanned(<<>>, {cursor})]
  ELSE ScanBefore(ScanThen(Scanned(<<cursor + 1>>, {cursor}),
                           SpacesScan(command, cursor + 1)),
                  ArgumentAt(ub, command, argTypes, i,
                             SkipSpaces(command, cursor + 1), args))

\* the response buffer as the callback receives it
ResponseNotReset(resp) == resp
ResponseForCallback(resp) == ""

\* what the handlers do with the response buffer: handler 1 leaves it as it
\* is, handler 2 writes a reply into it
HandlerWrites(callback) == callback = 2
HandlerReply(callback) == "ok " \o ToDec(callback)

\* the end of processCommand: the callback is invoked with the arguments
\* args and the response buffer holding given
InvokeCallback(callback, args, given) ==
  [status |-> "returned", ret |-> TRUE, args |-> args, scan |-> NoScan,
   invoked |-> << [callback |-> callback, args |-> args, response |-> given,
                   wrote |-> HandlerWrites(callback)] >>,
   response |-> IF HandlerWrites(callback) THEN HandlerReply(callback) ELSE given]

\* processCommand after the argument loop has left p for definition def
AfterArgumentsZeroing(def, p, resp0, command) ==
  IF p.status = "trap"
  THEN [status |-> "aborted", ret |-> FALSE, args |-> p.args, invoked |-> <<>>,
        response |-> resp0, scan |-> p.scan]
  ELSE IF p.status = "error"
  THEN [status |-> "returned", ret |-> FALSE,
        args |-> [k \in 0..(MAX_COMMAND_ARGS - 1) |-> ZeroArgument],
        invoked |-> <<>>, scan |-> p.scan,
        response |-> Snprintf(MAX_RESPONSE_SIZE, p.msg)]
  ELSE IF At(command, SkipSpaces(command, p.cursor)) # NUL
  THEN [status |-> "returned", ret |-> FALSE, args |-> p.args, invoked |-> <<>>,
        response |-> Snprintf(MAX_RESPONSE_SIZE, MsgTooManyArgs(Strlen(def.argTypes))),
        scan |-> ScanThen(p.scan, SpacesScan(command, p.cursor))]
  ELSE ScanBefore(ScanThen(p.scan, SpacesScan(command, p.cursor)),
                  InvokeCallback(def.callback, p.args, ResponseForCallback(resp0)))

AfterArguments(def, p, resp0, command) ==
  IF p.status = "trap"
  THEN [status |-> "aborted", ret |-> FALSE, args |-> p.args, invoked |-> <<>>,
        response |-> resp0, scan |-> p.scan]
  ELSE IF p.status = "error"
  THEN [status |-> "returned", ret |-> FALSE, args |-> p.args, invoked |-> <<>>,
        response |-> Snprintf(MAX_RESPONSE_SIZE, p.msg), scan |-> p.scan]
  ELSE IF At(command, SkipSpaces(command, p.cursor)) # NUL
  THEN [status |-> "returned", ret |-> FALSE, args |-> p.args, invoked |-> <<>>,
        response |-> Snprintf(MAX_RESPONSE_SIZE, MsgTooManyArgs(Strlen(def.argTypes))),
        scan |-> ScanThen(p.scan, SpacesScan(command, p.cursor))]
  ELSE ScanBefore(ScanThen(p.scan, SpacesScan(command, p.cursor)),
                  InvokeCallback(def.callback, p.args, ResponseForCallback(resp0)))

\* processCommand after the lookup has stopped at index k for the name of
\* nameLen bytes
AfterLookup(ub, defs, k, args0, resp0, command, nameLen) ==
  IF k = -1
  THEN [status |-> "returned", ret |-> FALSE, args |-> args0, invoked |-> <<>>,
        response |-> Snprintf(MAX_RESPONSE_SIZE,
                              MsgUnknownCommand(SubSeq(command, 1, nameLen))),
        scan |-> NoScan]
  ELSE AfterArguments(defs[k],
                      ParseArgs(ub, command, defs[k].argTypes, 0, nameLen, args0),
                      resp0, command)

AfterName(ub, defs, n, args0, resp0, command, nameLen) ==
  AfterLookup(ub, defs, Lookup(defs, n, SubSeq(command, 1, nameLen), 0),
              args0, resp0, command, nameLen)

\* processCommand(command, response) on a parser with definitions defs[0..n-1]
\* and argument array args0, resp0 being the content of the response buffer
ProcessCommand(ub, defs, n, args0, resp0, command) ==
  ScanBefore(ScanThen(Scanned(<<0>>, {}), NameScan(command, 0)),
             AfterName(ub, defs, n, args0, resp0, command, NameLength(command, 0)))

(***************************************************************************)
(* The calls the caller makes                                              *)
(***************************************************************************)

\* the number of processCommand calls of a run
MaxProcess == 2

\* the registrations the caller attempts: valid ones, two of them under a
\* name already used, and ones that break one constraint each
Registrations ==
  { <<"a", "i", 1>>, <<"a", "u", 2>>, <<"a", "d", 2>>,
    <<"ab", "", 1>>, <<"ab", "is", 2>>, <<"ab", "si", 1>>,
    <<"abc", "i", 1>>, <<"a", "iii", 1>>, <<"a", "x", 1>>, <<"a", "i", nullptr>> }

\* the digits of n >= 0 in the given base
RECURSIVE ToText(_, _)
ToText(n, base) ==
  LET d == SubSeq("0123456789abcdef", (n % base) + 1, (n % base) + 1)
  IN IF n < base THEN d ELSE ToText(n \div base, base) \o d

\* the texts of the limits of the integer types and of their neighbours
TextOf(x) == IF x < 0 THEN "-" \o ToDec(-x) ELSE ToDec(x)

\* argument texts
IntTokens ==
  { "1", "+1", "-1", "0x1f", "1a", "-", "0x",
    TextOf(LLONG_MAX + 1), TextOf(LLONG_MIN), TextOf(LLONG_MIN - 1),
    "-0x" \o ToText(-LLONG_MIN, 16) }
OtherTokens == { "\"a\"", "ab", "\"a", "1.5", "\"a\"1" }
\* string texts with escape sequences, complete and cut short by the end of
\* the line
EscapeTokens == { "\"\\x41\"", "\"\\x4", "\"\\x", "\"\\", "\\n", "\"\\z\"" }

\* what follows the command name on a line
Rests ==
  {"", " "}
  \cup { " " \o t : t \in IntTokens \cup OtherTokens \cup EscapeTokens }
  \cup { " 1 ", "  -1" }
  \cup { " " \o t \o " " \o u : t \in {"1", "1a", "\"a"},
                                    u \in {"1", "\"a\"", "1a", "\"a"} }
  \cup { " 1 \"a\" 1", " 1 1  ", " 1 \"a\"1", " 1a 1a 1" }

\* the lines the caller hands to processCommand: a name and what follows it
LineNames == {"a", "ab", "b", "abc"}
Lines ==
  { n \o r : n \in {"a", "ab"}, r \in Rests }
  \cup { n \o r : n \in {"b", "abc"}, r \in {"", " 1"} }

\* the lines of the calls before the last one of a run: they leave an error
\* message or a reply in the response buffer and values in the argument array
PriorLines == { "b", "a 1", "a -", "ab 1 \"a\"" }

Init ==
  /\ numCommands = 0
  /\ commandDefinitions = [k \in 0..(MAX_COMMANDS - 1) |-> ZeroCommand]
  /\ commandArgs = [k \in 0..(MAX_COMMAND_ARGS - 1) |-> ZeroArgument]
  /\ response = ""
  /\ halted = FALSE
  /\ call = [op |-> "none", status |-> "returned"]
  /\ nProcess = 0

\* the caller calls registerCommand
Register ==
  \E r \in Registrations : RegisterCommand(r[1], r[2], r[3])

\* the state a processCommand call with result r leaves
Processed(command, r) ==
  /\ commandArgs' = r.args
  /\ response' = r.response
  /\ halted' = (r.status = "aborted")
  /\ call' = [op |-> "processCommand", status |-> r.status, command |-> command,
              responseBefore |-> response, ret |-> r.ret, invoked |-> r.invoked,
              scan |-> r.scan]
  /\ nProcess' = nProcess + 1
  /\ UNCHANGED <<numCommands, commandDefinitions>>

\* the caller calls processCommand with its response buffer
Process ==
  \E command \in (IF nProcess + 1 < MaxProcess THEN PriorLines ELSE Lines), ub \in UBModes :
    /\ ~halted
    /\ nProcess < MaxProcess
    /\ Processed(command, ProcessCommand(ub, commandDefinitions, numCommands,
                                         commandArgs, response, command))

Next == Register \/ Process

Spec == Init /\ [][Next]_vars

(***************************************************************************)
(* SpecReg: the caller only registers commands, with every combination of  *)
(* names, argument types and callbacks around the limits                   *)
(***************************************************************************)

RegNames == {"", "a", "ab", "abc"}
RegArgTypes == {"", "i", "ds", "us", "x", "ix", "iii"}
RegCallbacks == {nullptr} \cup Handlers

RegisterAny ==
  \E name \in RegNames, argTypes \in RegArgTypes, callback \in RegCallbacks :
    RegisterCommand(name, argTypes, callback)

NextReg == RegisterAny

SpecReg == Init /\ [][NextReg]_vars

(***************************************************************************)
(* SpecInt: strToInt applied to a text.  The text is a sign, a base prefix *)
(* and a digit string, drawn from the short strings over a few characters  *)
(* and from the texts of the limits of the types and their neighbours.     *)
(***************************************************************************)

\* the length of the digit strings enumerated
MaxDigits == 3

DigitChars == {"0", "1", "7", "9", "a", "F", "g"}

\* the strings of at most n characters of cs
RECURSIVE Strings(_, _)
Strings(cs, n) ==
  IF n = 0 THEN {""}
  ELSE LET shorter == Strings(cs, n - 1)
       IN shorter \cup { str \o c : str \in shorter, c \in cs }

Signs == {"", "+", "-"}
Prefixes == {"", "0b", "0o", "0x"}
BaseOf(prefix) ==
  CASE prefix = "0b" -> 2 [] prefix = "0o" -> 8 [] prefix = "0x" -> 16 [] OTHER -> 10

LimitTexts ==
  { [sign |-> sg, prefix |-> pre, digits |-> ToText(v, BaseOf(pre))] :
      sg \in Signs, pre \in Prefixes,
      v \in {LLONG_MAX, LLONG_MAX + 1, LLONG_MAX + 2, ULLONG_MAX, ULLONG_MAX + 1} }

ShortTexts ==
  { [sign |-> sg, prefix |-> pre, digits |-> ds] :
      sg \in Signs, pre \in Prefixes, ds \in Strings(DigitChars, MaxDigits) }

InitInt ==
  /\ numCommands = 0
  /\ commandDefinitions = [k \in 0..(MAX_COMMANDS - 1) |-> ZeroCommand]
  /\ commandArgs = [k \in 0..(MAX_COMMAND_ARGS - 1) |-> ZeroArgument]
  /\ response = ""
  /\ halted = FALSE
  /\ nProcess = 0
  /\ \E T \in {"int64_t", "uint64_t"}, t \in LimitTexts \cup ShortTexts :
       call = [op |-> "input", T |-> T, text |-> t, buf |-> t.sign \o t.prefix \o t.digits]

\* the state a strToInt call with result r leaves
StrToIntCalled(r) ==
  /\ call' = [op |-> "strToInt", T |-> call.T, text |-> call.text, buf |-> call.buf,
              bytesRead |-> r.bytesRead, value |-> r.value, trapped |-> r.trapped]
  /\ UNCHANGED <<numCommands, commandDefinitions, commandArgs, response, halted, nProcess>>

\* strToInt<T>(buf, &value, min, max) with the limits of T
CallStrToInt ==
  \E ub \in UBModes :
    /\ call.op = "input"
    /\ StrToIntCalled(StrToInt(call.T, ub, call.buf, MinOf(call.T), MaxOf(call.T)))

NextInt == CallStrToInt

SpecInt == InitInt /\ [][NextInt]_vars

(***************************************************************************)
(* The parser of the example sketch fed with string arguments: the caller  *)
(* registers commands that take a string and processes lines whose string  *)
(* argument is built of ordinary bytes and escape sequences, quoted, with  *)
(* the closing quote missing, or unquoted.                                 *)
(***************************************************************************)

MaxPieces == 2

StrRegistrations == { <<"a", "s", 1>>, <<"ab", "is", 2>> }

\* what a string argument is written with: ordinary bytes, the escapes,
\* and escapes that are unknown or cut short
Pieces ==
  { "a", "bc", " ", "\\n", "\\r", "\\t", "\\\"", "\\\\", "\\x41", "\\xaF",
    "\\z", "\\x", "\\x5z" }

\* the texts made of at most n pieces
RECURSIVE Contents(_)
Contents(n) ==
  IF n = 0 THEN {""}
  ELSE Contents(n - 1) \cup { c \o q : c \in Contents(n - 1), q \in Pieces }

\* a string argument as the first argument of a, quoted, with the closing
\* quote missing, or unquoted, and as the second argument of ab, quoted
StrLines ==
  { "a \"" \o c \o "\"" : c \in Contents(MaxPieces) }
  \cup { "a \"" \o c : c \in Contents(MaxPieces) }
  \cup { "a " \o c : c \in Contents(MaxPieces) }
  \cup { "ab 1 \"" \o c \o "\"" : c \in Contents(MaxPieces) }

RegisterStr ==
  \E r \in StrRegistrations : RegisterCommand(r[1], r[2], r[3])

\* the one processCommand call of a run
ProcessStr ==
  \E command \in StrLines, ub \in UBModes :
    /\ ~halted
    /\ nProcess = 0
    /\ Processed(command, ProcessCommand(ub, commandDefinitions, numCommands,
                                         commandArgs, response, command))

NextStr == RegisterStr \/ ProcessStr

SpecStr == Init /\ [][NextStr]_vars

(***************************************************************************)
(* What the properties below refer to                                      *)
(***************************************************************************)

\* the last call was op and it returned
Returned(op) == call.op = op /\ call.status = "returned"

\* the name a line of Lines begins with
NameOf(command) ==
  CHOOSE n \in LineNames : \E r \in Rests : command = n \o r

\* the registered definitions named name, and the earliest of them
Named(name) == { k \in 0..(numCommands - 1) : commandDefinitions[k].name = name }
Earliest(name) == CHOOSE k \in Named(name) : \A j \in Named(name) : k <= j

\* the five constraints of registerCommand on a registry of n definitions
Registrable(n, name, argTypes, callback) ==
  /\ n < MAX_COMMANDS
  /\ Len(name) <= MAX_COMMAND_NAME_LENGTH
  /\ Len(argTypes) <= MAX_COMMAND_ARGS
  /\ \A k \in 1..Len(argTypes) : SubSeq(argTypes, k, k) \in {"d", "i", "u", "s"}
  /\ callback # nullptr

\* the value of a digit character, read off the digit alphabet
RefDigit(c) ==
  IF \E k \in 1..16 : SubSeq("0123456789abcdef", k, k) = c
  THEN (CHOOSE k \in 1..16 : SubSeq("0123456789abcdef", k, k) = c) - 1
  ELSE IF \E k \in 1..6 : SubSeq("ABCDEF", k, k) = c
  THEN (CHOOSE k \in 1..6 : SubSeq("ABCDEF", k, k) = c) + 9
  ELSE 99

\* a text of SpecInt is an integer text when it has at least one digit and
\* all its digits are digits of its base
IsIntegerText(t) ==
  /\ Len(t.digits) >= 1
  /\ \A k \in 1..Len(t.digits) : RefDigit(SubSeq(t.digits, k, k)) < BaseOf(t.prefix)

\* the number a digit string writes in a base, and the mathematical value
\* of an integer text
RECURSIVE RefNumber(_, _)
RefNumber(digits, base) ==
  IF digits = "" THEN 0
  ELSE RefNumber(SubSeq(digits, 1, Len(digits) - 1), base) * base
       + RefDigit(SubSeq(digits, Len(digits), Len(digits)))

MathValue(t) ==
  IF t.sign = "-" THEN -RefNumber(t.digits, BaseOf(t.prefix))
  ELSE RefNumber(t.digits, BaseOf(t.prefix))

\* well-formed argument texts of each type with the value each one writes:
\* integers, a double, and for a string the bytes of its content
WellFormed(tag) ==
  CASE tag = "i" ->
         { <<"1", 1>>, <<"+1", 1>>, <<"-1", -1>>, <<"0x1f", 31>>,
           <<TextOf(LLONG_MIN), LLONG_MIN>>,
           <<"-0x" \o ToText(-LLONG_MIN, 16), LLONG_MIN>> }
    [] tag = "u" -> { <<"1", 1>>, <<"0x1f", 31>> }
    [] tag = "d" -> { <<"1.5", [neg |-> FALSE, mant |-> 15, exp |-> -1]>> }
    [] tag = "s" -> { <<"\"a\"", <<97>> >>, <<"ab", <<97, 98>> >>, <<"1", <<49>> >> }

\* the content of an argument slot, as the handler reads it for a type tag
ValueAs(tag, slot) ==
  CASE tag = "i" /\ slot.member = "asInt64" -> slot.value
    [] tag = "u" /\ slot.member = "asUInt64" -> slot.value
    [] tag = "d" /\ slot.member = "asDouble" -> slot.value
    [] tag = "s" /\ slot.member = "asString" -> CStr(slot.value, 0)
    [] OTHER -> "indeterminate"

\* the lines made of a name and one well-formed argument per tag of
\* argTypes (of at most two tags), each with the values of its arguments
WellFormedLines(name, argTypes) ==
  IF Len(argTypes) = 0 THEN { [line |-> name, values |-> <<>>] }
  ELSE IF Len(argTypes) = 1
  THEN { [line |-> name \o " " \o a[1], values |-> <<a[2]>>] :
           a \in WellFormed(argTypes) }
  ELSE { [line |-> name \o " " \o a[1] \o " " \o b[1], values |-> <<a[2], b[2]>>] :
           a \in WellFormed(SubSeq(argTypes, 1, 1)),
           b \in WellFormed(SubSeq(argTypes, 2, 2)) }

(***************************************************************************)
(* C1  Every registerCommand call within the bounds on a registry that is  *)
(* not full returns true, and a later processCommand of a line made of the *)
(* registered name and one well-formed argument per declared tag invokes   *)
(* the handler of that registration with the values of the arguments.      *)
(* (The registration is taken to be the earliest one of its name.)         *)
(***************************************************************************)
C1_ValidCommandReachesHandler ==
  /\ (call.op = "registerCommand" /\ ~call.ret
        /\ Registrable(0, call.name, call.argTypes, call.callback))
       => numCommands = MAX_COMMANDS
  /\ call.op = "processCommand" =>
       \A k \in 0..(numCommands - 1) :
         LET def == commandDefinitions[k] IN
         \A w \in WellFormedLines(def.name, def.argTypes) :
           (k = Earliest(def.name) /\ call.command = w.line) =>
             /\ call.status = "returned"
             /\ call.ret
             /\ Len(call.invoked) = 1
             /\ call.invoked[1].callback = def.callback
             /\ \A j \in 1..Len(def.argTypes) :
                  ValueAs(SubSeq(def.argTypes, j, j), call.invoked[1].args[j - 1])
                    = w.values[j]

(***************************************************************************)
(* C2  processCommand returns true if and only if it invoked exactly one   *)
(* handler during the call; when it returns false no handler was invoked   *)
(* and the response buffer holds a message starting with "parse error: ".  *)
(***************************************************************************)
C2_TrueIffOneHandler ==
  Returned("processCommand") =>
    /\ call.ret <=> Len(call.invoked) = 1
    /\ ~call.ret =>
         /\ call.invoked = <<>>
         /\ Len(response) >= 13
         /\ SubSeq(response, 1, 13) = "parse error: "

\* a call that parsed its argument and failed on what follows it
C2_Witness ==
  /\ Returned("processCommand")
  /\ call.command = "a 1 1a"
  /\ ~call.ret
  /\ call.invoked = <<>>
  /\ response = "parse error: too many args (expected 1)"

(***************************************************************************)
(* C3  On every successful processCommand call the response buffer is      *)
(* empty when the handler is invoked, so a handler that writes nothing     *)
(* leaves the response empty, whatever the buffer held before the call.    *)
(***************************************************************************)
C3_ResponseResetBeforeHandler ==
  (Returned("processCommand") /\ call.ret) =>
    /\ call.invoked[1].response = ""
    /\ ~call.invoked[1].wrote => response = ""

\* a successful call of a handler that writes nothing, made with the error
\* message of a failed call in the buffer
C3_Witness ==
  /\ Returned("processCommand")
  /\ call.ret
  /\ ~call.invoked[1].wrote
  /\ call.responseBefore = "parse error: unknown command name b"
  /\ response = ""

(***************************************************************************)
(* C6  When several registered definitions have the same name,             *)
(* processCommand uses the argument types and the handler of the earliest  *)
(* one: the handler invoked and the types of the arguments it receives are *)
(* those of the earliest definition, and so are the type and the arity an  *)
(* error message names.                                                    *)
(***************************************************************************)
MemberOf(tag) ==
  CASE tag = "d" -> "asDouble" [] tag = "u" -> "asUInt64"
    [] tag = "i" -> "asInt64" [] tag = "s" -> "asString"

TypeNameOf(tag) ==
  CASE tag = "d" -> "double" [] tag = "u" -> "uint64_t"
    [] tag = "i" -> "int64_t" [] tag = "s" -> "string"

C6_EarliestDefinitionWins ==
  (Returned("processCommand") /\ Named(NameOf(call.command)) # {}) =>
    LET def == commandDefinitions[Earliest(NameOf(call.command))] IN
    /\ call.ret =>
         /\ call.invoked[1].callback = def.callback
         /\ \A j \in 1..Len(def.argTypes) :
              call.invoked[1].args[j - 1].member = MemberOf(SubSeq(def.argTypes, j, j))
    /\ \A n \in 1..MAX_COMMAND_ARGS, tag \in {"d", "u", "i", "s"} :
         response = "parse error: invalid " \o TypeNameOf(tag) \o " for arg " \o ToDec(n)
           => (n <= Len(def.argTypes) /\ SubSeq(def.argTypes, n, n) = tag)
    /\ \A n \in 0..MAX_COMMAND_ARGS :
         (~call.ret /\ response = "parse error: too many args (expected " \o ToDec(n) \o ")")
           => Len(def.argTypes) = n

\* two definitions named "a": the earlier one takes a signed integer and
\* accepts -1, the later one takes an unsigned integer and would reject it
C6_Witness ==
  /\ Returned("processCommand")
  /\ numCommands = 2
  /\ commandDefinitions[0] = [name |-> "a", argTypes |-> "i", callback |-> 1]
  /\ commandDefinitions[1] = [name |-> "a", argTypes |-> "u", callback |-> 2]
  /\ call.command = "a -1"
  /\ call.ret
  /\ call.invoked[1].callback = 1

(***************************************************************************)
(* C4  A registerCommand call that returns false leaves the parser exactly *)
(* as it was: numCommands, every stored definition, the argument array and *)
(* the response buffer are unchanged, so that a later processCommand runs  *)
(* on the state it would have run on without the call.                     *)
(***************************************************************************)
\* what a processCommand of the line command does on the parser state given
LaterProcess(n, defs, args, resp, command) ==
  [ub \in UBModes |-> ProcessCommand(ub, defs, n, args, resp, command)]

C4_RejectedRegistrationChangesNothing ==
  [][ (call'.op = "registerCommand" /\ ~call'.ret) =>
        /\ UNCHANGED <<numCommands, commandDefinitions, commandArgs, response>>
        /\ \A rest \in {"", " 1"} :
             LaterProcess(numCommands', commandDefinitions', commandArgs', response',
                          call'.name \o rest)
               = LaterProcess(numCommands, commandDefinitions, commandArgs, response,
                              call'.name \o rest) ]_vars

\* a registration rejected for a tag outside d, i, u, s, with one
\* definition stored and room for another
C4_Witness ==
  /\ call.op = "registerCommand"
  /\ ~call.ret
  /\ call.argTypes = "x"
  /\ call.name = "a"
  /\ call.callback # nullptr
  /\ numCommands = 1
  /\ commandDefinitions[0].name = "a"
  /\ commandDefinitions[1] = ZeroCommand

(***************************************************************************)
(* C5  registerCommand returns true exactly when the five constraints      *)
(* hold, every bound being inclusive, and it then appends the definition   *)
(* given: numCommands grows by one and the new definition holds the name,  *)
(* the argument types and the callback of the call.                        *)
(***************************************************************************)
C5_RegistersExactlyWithinBounds ==
  [][ call'.op = "registerCommand" =>
        /\ call'.ret <=> Registrable(numCommands, call'.name, call'.argTypes, call'.callback)
        /\ call'.ret =>
             /\ numCommands' = numCommands + 1
             /\ commandDefinitions' =
                  [commandDefinitions EXCEPT ![numCommands] =
                     [name |-> call'.name, argTypes |-> call'.argTypes,
                      callback |-> call'.callback]]
        /\ numCommands' <= MAX_COMMANDS ]_vars

\* MAX_COMMANDS registrations have succeeded, one of them with a name and
\* an argTypes of the maximum lengths, and the next valid one has failed
C5_Witness ==
  /\ numCommands = MAX_COMMANDS
  /\ \E k \in 0..(MAX_COMMANDS - 1) :
       /\ Len(commandDefinitions[k].name) = MAX_COMMAND_NAME_LENGTH
       /\ Len(commandDefinitions[k].argTypes) = MAX_COMMAND_ARGS
  /\ call.op = "registerCommand"
  /\ ~call.ret
  /\ Registrable(0, call.name, call.argTypes, call.callback)

(***************************************************************************)
(* C7  Integer parsing never succeeds with a wrapped value: for every      *)
(* integer text whose mathematical value is outside the range of the       *)
(* target type, strToInt returns 0.                                        *)
(***************************************************************************)
C7_OutOfRangeIsRejected ==
  (call.op = "strToInt" /\ ~call.trapped /\ IsIntegerText(call.text)
     /\ ~InRange(call.T, MathValue(call.text)))
    => call.bytesRead = 0

(***************************************************************************)
(* C8  For every integer text whose mathematical value is representable    *)
(* in the target type, strToInt consumes the whole text and stores exactly *)
(* that value (the texts for the unsigned type being those without sign).  *)
(***************************************************************************)
C8_RepresentableIsParsed ==
  (call.op = "strToInt" /\ IsIntegerText(call.text)
     /\ InRange(call.T, MathValue(call.text))
     /\ (call.T = "uint64_t" => call.text.sign = ""))
    => /\ ~call.trapped
       /\ call.bytesRead = Len(call.buf)
       /\ call.value = MathValue(call.text)

\* the lines made of the name of the earliest definition def of its name
\* and of the argument text t
OneArgumentLine(def, t) ==
  /\ Returned("processCommand")
  /\ Named(def.name) # {}
  /\ def = commandDefinitions[Earliest(def.name)]
  /\ call.command = def.name \o " " \o t

(***************************************************************************)
(* C9 as stated  For an unsigned-integer argument a leading '+' is         *)
(* accepted and the digits after it are parsed as the value, while a       *)
(* leading '-' makes the argument invalid.                                 *)
(***************************************************************************)
C9_PlusAcceptedForUnsigned ==
  \A k \in 0..(numCommands - 1) :
    LET def == commandDefinitions[k] IN
    def.argTypes = "u" =>
      /\ OneArgumentLine(def, "+1") =>
           /\ call.ret
           /\ ValueAs("u", call.invoked[1].args[0]) = 1
      /\ OneArgumentLine(def, "-1") =>
           /\ ~call.ret
           /\ response = "parse error: invalid uint64_t for arg 1"

(***************************************************************************)
(* C9 as amended  For an unsigned-integer argument no sign is accepted: a  *)
(* leading '+' as well as a leading '-' makes the argument invalid, with   *)
(* the message "parse error: invalid uint64_t for arg N", and the handler  *)
(* is not invoked.                                                         *)
(***************************************************************************)
C9_NoSignForUnsigned ==
  \A k \in 0..(numCommands - 1) :
    LET def == commandDefinitions[k] IN
    \A t \in IntTokens :
      (def.argTypes = "u" /\ SubSeq(t, 1, 1) \in {"+", "-"} /\ OneArgumentLine(def, t)) =>
        /\ ~call.ret
        /\ call.invoked = <<>>
        /\ response = "parse error: invalid uint64_t for arg 1"

\* the line "a +1" processed for a command taking one unsigned integer
C9_Witness ==
  /\ Returned("processCommand")
  /\ numCommands >= 1
  /\ commandDefinitions[0] = [name |-> "a", argTypes |-> "u", callback |-> 2]
  /\ call.command = "a +1"
  /\ ~call.ret
  /\ response = "parse error: invalid uint64_t for arg 1"

(***************************************************************************)
(* C10  An integer argument at position N is rejected with "parse error:   *)
(* invalid int64_t for arg N" (uint64_t for an unsigned argument), and the *)
(* handler is not invoked, whenever its text has no digit of the active    *)
(* base (an empty text, a lone sign, a lone base prefix) or the byte after *)
(* its last digit is neither a space nor the terminator (as in 1a).        *)
(***************************************************************************)
\* integer texts without a digit, or with a byte after the last digit
BadIntegerTexts == {"", "-", "0x", "1a", "\"a\""}

\* what precedes argument n of a command of types argTypes on a line: one
\* well-formed text for each earlier argument
Preceding(argTypes, n) ==
  IF n = 1 THEN {""}
  ELSE { " " \o a[1] : a \in WellFormed(SubSeq(argTypes, 1, 1)) } \cup
       (IF SubSeq(argTypes, 1, 1) = "s" THEN {" 1a"} ELSE {})

C10_BadIntegerIsRejected ==
  (Returned("processCommand") /\ Named(NameOf(call.command)) # {}) =>
    LET def == commandDefinitions[Earliest(NameOf(call.command))] IN
    \A n \in 1..Len(def.argTypes) :
      LET tag == SubSeq(def.argTypes, n, n) IN
      \A pre \in Preceding(def.argTypes, n), t \in BadIntegerTexts,
         post \in {"", " 1", " \"a\"", " 1a"} :
        (/\ tag \in {"i", "u"}
         /\ t = "" => post = ""
         /\ call.command = def.name \o pre \o " " \o t \o post)
        => /\ ~call.ret
           /\ call.invoked = <<>>
           /\ response = "parse error: invalid " \o TypeNameOf(tag)
                           \o " for arg " \o ToDec(n)

\* the second argument of a command of types "si" is 1a
C10_Witness ==
  /\ Returned("processCommand")
  /\ numCommands >= 1
  /\ commandDefinitions[0] = [name |-> "ab", argTypes |-> "si", callback |-> 1]
  /\ call.command = "ab 1 1a"
  /\ ~call.ret
  /\ call.invoked = <<>>
  /\ response = "parse error: invalid int64_t for arg 2"

\* the name token of a line: the bytes before the first space or the
\* terminator
RECURSIVE NameToken(_)
NameToken(command) ==
  IF command = "" \/ SubSeq(command, 1, 1) = " " THEN ""
  ELSE SubSeq(command, 1, 1) \o NameToken(SubSeq(command, 2, Len(command)))

\* the first n bytes of a text
Cut(t, n) == IF Len(t) > n THEN SubSeq(t, 1, n) ELSE t

(***************************************************************************)
(* C11  For every line whose name token is longer than                     *)
(* MAX_COMMAND_NAME_LENGTH, processCommand fails with "parse error:        *)
(* unknown command name " followed by the first MAX_COMMAND_NAME_LENGTH    *)
(* bytes of the token, whatever names are registered: the handler is not   *)
(* invoked and no other error is reported.                                 *)
(***************************************************************************)
C11_OverLengthNameIsUnknown ==
  (Returned("processCommand")
     /\ Len(NameToken(call.command)) > MAX_COMMAND_NAME_LENGTH) =>
    /\ ~call.ret
    /\ call.invoked = <<>>
    /\ response = "parse error: unknown command name "
                    \o Cut(NameToken(call.command), MAX_COMMAND_NAME_LENGTH)

(***************************************************************************)
(* C12  If the name token of a line equals no registered name byte for     *)
(* byte, processCommand returns false with the response "parse error:      *)
(* unknown command name " followed by the token (by its first              *)
(* MAX_COMMAND_NAME_LENGTH bytes when it is longer), it invokes no handler *)
(* and it stores no argument, whatever follows the name on the line.       *)
(***************************************************************************)
C12_UnknownNameIsReported ==
  [][ (/\ call'.op = "processCommand"
       /\ call'.status = "returned"
       /\ \A k \in 0..(numCommands - 1) :
            commandDefinitions[k].name # NameToken(call'.command))
      => /\ ~call'.ret
         /\ call'.invoked = <<>>
         /\ response' = "parse error: unknown command name "
                          \o Cut(NameToken(call'.command), MAX_COMMAND_NAME_LENGTH)
         /\ commandArgs' = commandArgs ]_vars

\* argument texts of each type that processCommand consumes whole when one
\* of them stands at the cursor, and the quoted ones among them
ParsedTexts(tag) ==
  CASE tag = "i" -> {"1", "+1", "-1", "0x1f"}
    [] tag = "u" -> {"1", "0x1f"}
    [] tag = "d" -> {"1.5"}
    [] tag = "s" -> {"\"a\"", "ab", "1", "1a"}
    [] OTHER -> {}

\* the lines that give a command of types argTypes its first n arguments,
\* each after one space: the name followed by one parsed text per argument
RECURSIVE ArgumentsGiven(_, _, _)
ArgumentsGiven(name, argTypes, n) ==
  IF n = 0 THEN {name}
  ELSE { l \o " " \o t : l \in ArgumentsGiven(name, argTypes, n - 1),
                         t \in ParsedTexts(SubSeq(argTypes, n, n)) }

\* the line ends with a closing quote
EndsWithQuote(l) == Len(l) >= 1 /\ SubSeq(l, Len(l), Len(l)) = "\""

(***************************************************************************)
(* C13  For a matched command, when the first N - 1 arguments have been    *)
(* parsed and the byte at the cursor, where argument N is expected, is not *)
(* a space (the line ends there, or a quoted string is followed directly   *)
(* by another byte), processCommand returns false with "parse error:       *)
(* missing whitespace before arg N" and invokes no handler; a line that is *)
(* just the name of a command of arity at least 1 gives N = 1.             *)
(***************************************************************************)
C13_MissingWhitespaceIsReported ==
  (Returned("processCommand") /\ Named(NameToken(call.command)) # {}) =>
    LET def == commandDefinitions[Earliest(NameToken(call.command))] IN
    \A n \in 1..Len(def.argTypes) :
      \A l \in ArgumentsGiven(def.name, def.argTypes, n - 1) :
        (\/ call.command = l
         \/ EndsWithQuote(l) /\ call.command \in {l \o "1", l \o "1 1"})
        => /\ ~call.ret
           /\ call.invoked = <<>>
           /\ response = "parse error: missing whitespace before arg " \o ToDec(n)

\* a quoted string followed directly by the text of the second argument
C13_Witness ==
  /\ Returned("processCommand")
  /\ numCommands >= 1
  /\ commandDefinitions[0] = [name |-> "ab", argTypes |-> "si", callback |-> 1]
  /\ call.command = "ab \"a\"1"
  /\ ~call.ret
  /\ response = "parse error: missing whitespace before arg 2"

(***************************************************************************)
(* C14  After the K declared arguments of a matched command have been      *)
(* parsed, a run of trailing spaces is accepted and the handler is         *)
(* invoked; if a non-space byte remains before the terminator,             *)
(* processCommand returns false with "parse error: too many args           *)
(* (expected K)", K being the declared arity, and invokes no handler.      *)
(***************************************************************************)
C14_TooManyArgsIsReported ==
  (Returned("processCommand") /\ Named(NameToken(call.command)) # {}) =>
    LET def == commandDefinitions[Earliest(NameToken(call.command))]
        K == Len(def.argTypes)
    IN
    \A l \in ArgumentsGiven(def.name, def.argTypes, K) :
      /\ call.command \in {l, l \o " ", l \o "  "} =>
           /\ call.ret
           /\ Len(call.invoked) = 1
      /\ (\/ call.command \in {l \o " 1", l \o " 1a", l \o " \"a\"", l \o "  -1"}
          \/ K >= 1 /\ EndsWithQuote(l) /\ call.command = l \o "1")
         => /\ ~call.ret
            /\ call.invoked = <<>>
            /\ response = "parse error: too many args (expected " \o ToDec(K) \o ")"

\* two arguments parsed, then a third text
C14_Witness ==
  /\ Returned("processCommand")
  /\ numCommands >= 1
  /\ commandDefinitions[0] = [name |-> "ab", argTypes |-> "is", callback |-> 2]
  /\ call.command = "ab 1 \"a\" 1"
  /\ ~call.ret
  /\ call.invoked = <<>>
  /\ response = "parse error: too many args (expected 2)"

\* the byte each escape letter stands for
RefEscape ==
  [e \in {"n", "r", "t", "\"", "\\"} |->
     CASE e = "n" -> 10 [] e = "r" -> 13 [] e = "t" -> 9
       [] e = "\"" -> 34 [] e = "\\" -> 92]

\* the reference decoding of a string argument, s being its text (after the
\* opening quote when it is quoted): whether it is well formed up to its
\* end (the closing quote; a space or the end of the line when unquoted),
\* the bytes it denotes, and what follows it on the line
RECURSIVE RefScan(_, _, _)
RefScan(s, quoted, bytes) ==
  LET c(k) == IF Len(s) >= k THEN SubSeq(s, k, k) ELSE ""
      tail(k) == SubSeq(s, k + 1, Len(s))
      fault == [ok |-> FALSE, bytes |-> bytes, rest |-> s]
  IN
  IF s = "" THEN [ok |-> ~quoted, bytes |-> bytes, rest |-> ""]
  ELSE IF quoted /\ c(1) = "\"" THEN [ok |-> TRUE, bytes |-> bytes, rest |-> tail(1)]
  ELSE IF ~quoted /\ c(1) = " " THEN [ok |-> TRUE, bytes |-> bytes, rest |-> s]
  ELSE IF c(1) # "\\" THEN RefScan(tail(1), quoted, bytes \o <<Ord(c(1))>>)
  ELSE IF c(2) \in DOMAIN RefEscape
  THEN RefScan(tail(2), quoted, bytes \o <<RefEscape[c(2)]>>)
  ELSE IF c(2) = "x" /\ RefDigit(c(3)) < 16 /\ RefDigit(c(4)) < 16
  THEN RefScan(tail(4), quoted, bytes \o <<16 * RefDigit(c(3)) + RefDigit(c(4))>>)
  ELSE fault

\* the string argument of a line of StrLines for the definition def: its
\* position, its text, and its reference decoding
StringOf(def, command) ==
  LET n == IF def.argTypes = "s" THEN 1 ELSE 2
      text == SubSeq(command, Len(def.name) + (IF n = 1 THEN 2 ELSE 4), Len(command))
      quoted == Len(text) >= 1 /\ SubSeq(text, 1, 1) = "\""
  IN [n |-> n, text |-> text, quoted |-> quoted,
      ref |-> RefScan(IF quoted THEN SubSeq(text, 2, Len(text)) ELSE text, quoted, <<>>)]

\* the last call processed a line for the definition def, the earliest of
\* its name, which takes a string
StringCall(def) ==
  /\ Returned("processCommand")
  /\ Named(def.name) # {}
  /\ def = commandDefinitions[Earliest(def.name)]
  /\ NameToken(call.command) = def.name
  /\ def.argTypes \in {"s", "is"}

\* the handler was invoked with the bytes given, followed by a terminator,
\* as argument n
Delivered(n, bytes) ==
  /\ call.ret
  /\ Len(call.invoked) = 1
  /\ call.invoked[1].args[n - 1].member = "asString"
  /\ \A k \in 1..Len(bytes) : call.invoked[1].args[n - 1].value[k - 1] = bytes[k]
  /\ call.invoked[1].args[n - 1].value[Len(bytes)] = 0

\* the call failed on string argument n
InvalidString(n) ==
  /\ ~call.ret
  /\ call.invoked = <<>>
  /\ response = "parse error: invalid string for arg " \o ToDec(n)

(***************************************************************************)
(* C15  In a quoted string argument each escape decodes to one output      *)
(* byte (\n, \r, \t, \" and \\ to newline, carriage return, tab, quote and *)
(* backslash, \xHH to the byte 16*H1+H2, hex digits of either case) and    *)
(* every other byte is copied unchanged: for a quoted string that fits the *)
(* argument size, the handler receives the reference decoding of the text  *)
(* between the quotes, followed by the terminator.                         *)
(***************************************************************************)
C15_EscapesDecodeExactly ==
  \A k \in 0..(numCommands - 1) :
    LET def == commandDefinitions[k] IN
    StringCall(def) =>
      LET a == StringOf(def, call.command) IN
      (a.quoted /\ a.ref.ok /\ a.ref.rest = ""
         /\ Len(a.ref.bytes) <= MAX_COMMAND_ARG_SIZE)
        => Delivered(a.n, a.ref.bytes)

\* a hex escape with digits of both cases and the escape of a newline
C15_Witness ==
  /\ Returned("processCommand")
  /\ call.command = "a \"\\xaF\\n\""
  /\ call.ret
  /\ ValueAs("s", call.invoked[1].args[0]) = <<175, 10>>

(***************************************************************************)
(* C16  A quoted string argument at position N is rejected with "parse     *)
(* error: invalid string for arg N", and the handler is not invoked, when  *)
(* the closing quote is missing before the terminator, when a backslash is *)
(* followed by a byte other than n, r, t, ", \ or x, and when \x is not    *)
(* followed by two hex digits.                                             *)
(***************************************************************************)
C16_BadQuotedStringIsRejected ==
  \A k \in 0..(numCommands - 1) :
    LET def == commandDefinitions[k] IN
    StringCall(def) =>
      LET a == StringOf(def, call.command) IN
      (a.quoted /\ ~a.ref.ok) => InvalidString(a.n)

\* the hex escape of the example sketch that has one hex digit only
C16_Witness ==
  /\ Returned("processCommand")
  /\ numCommands >= 1
  /\ commandDefinitions[0] = [name |-> "a", argTypes |-> "s", callback |-> 1]
  /\ call.command = "a \"\\x5z\""
  /\ ~call.ret
  /\ response = "parse error: invalid string for arg 1"

(***************************************************************************)
(* C17  A string argument that does not begin with a double quote is       *)
(* invalid: for a command registered with type s, a line such as say abc   *)
(* makes processCommand return false with "parse error: invalid string for *)
(* arg 1", and the handler is not invoked.                                 *)
(***************************************************************************)
C17_UnquotedStringIsRejected ==
  \A k \in 0..(numCommands - 1) :
    LET def == commandDefinitions[k] IN
    (StringCall(def) /\ def.argTypes = "s") =>
      (~StringOf(def, call.command).quoted => InvalidString(1))

(***************************************************************************)
(* C18  Whenever the decoded content of a string argument is longer than   *)
(* MAX_COMMAND_ARG_SIZE bytes, processCommand returns false and the        *)
(* handler is not invoked; a quoted string whose decoded content is        *)
(* exactly MAX_COMMAND_ARG_SIZE bytes is accepted and delivered in full.   *)
(***************************************************************************)
C18_ArgumentSizeIsTheLimit ==
  \A k \in 0..(numCommands - 1) :
    LET def == commandDefinitions[k] IN
    StringCall(def) =>
      LET a == StringOf(def, call.command) IN
      /\ (a.ref.ok /\ Len(a.ref.bytes) > MAX_COMMAND_ARG_SIZE)
           => (~call.ret /\ call.invoked = <<>>)
      /\ (a.quoted /\ a.ref.ok /\ a.ref.rest = ""
            /\ Len(a.ref.bytes) = MAX_COMMAND_ARG_SIZE)
           => /\ Delivered(a.n, a.ref.bytes)
              /\ ValueAs("s", call.invoked[1].args[a.n - 1]) = a.ref.bytes

\* a quoted string one byte too long, written with an escape
C18_Witness ==
  /\ Returned("processCommand")
  /\ numCommands >= 1
  /\ commandDefinitions[0] = [name |-> "a", argTypes |-> "s", callback |-> 1]
  /\ call.command = "a \"bc\\n\""
  /\ ~call.ret
  /\ call.invoked = <<>>

(***************************************************************************)
(* C19  Over any sequence of registerCommand and processCommand calls the  *)
(* registry is append-only: numCommands never exceeds MAX_COMMANDS, it     *)
(* changes only by +1, on a registerCommand that returns true and stores   *)
(* the definition given at the end, every definition stored before a call  *)
(* is unchanged after it, and processCommand, successful or failed, never  *)
(* modifies the registry.                                                  *)
(***************************************************************************)
C19_RegistryIsAppendOnly ==
  [][ /\ numCommands' <= MAX_COMMANDS
      /\ numCommands' \in {numCommands, numCommands + 1}
      /\ (call'.op = "registerCommand" /\ call'.ret) <=> numCommands' = numCommands + 1
      /\ numCommands' = numCommands + 1 =>
           commandDefinitions'[numCommands] =
             [name |-> call'.name, argTypes |-> call'.argTypes,
              callback |-> call'.callback]
      /\ \A k \in 0..(numCommands - 1) : commandDefinitions'[k] = commandDefinitions[k]
      /\ call'.op = "processCommand" => UNCHANGED <<numCommands, commandDefinitions>>
    ]_vars

\* a failed processCommand call on a full registry that holds the two
\* registrations in their order
C19_Witness ==
  /\ numCommands = MAX_COMMANDS
  /\ commandDefinitions[0] = [name |-> "a", argTypes |-> "i", callback |-> 1]
  /\ commandDefinitions[1] = [name |-> "ab", argTypes |-> "is", callback |-> 2]
  /\ call.op = "processCommand"
  /\ call.command = "ab 1a \"a"
  /\ ~call.ret

\* the texts given to the two arguments of a command of types "is" or
\* "si", each with whether processCommand is to reject it
TwoArguments(argTypes) ==
  IF argTypes = "is"
  THEN { [t1 |-> x[1], bad1 |-> x[2], t2 |-> y[1], bad2 |-> y[2]] :
           x \in { <<"1", FALSE>>, <<"1a", TRUE>>, <<"\"a", TRUE>> },
           y \in { <<"1", FALSE>>, <<"\"a\"", FALSE>>, <<"1a", FALSE>>, <<"\"a", TRUE>> } }
  ELSE { [t1 |-> x[1], bad1 |-> x[2], t2 |-> y[1], bad2 |-> y[2]] :
           x \in { <<"1", FALSE>>, <<"1a", FALSE>>, <<"\"a", TRUE>> },
           y \in { <<"1", FALSE>>, <<"1a", TRUE>> } }
       \cup { [t1 |-> x, bad1 |-> FALSE, t2 |-> y, bad2 |-> TRUE] :
                x \in {"1", "1a"}, y \in {"\"a\"", "\"a"} }

(***************************************************************************)
(* C20  Arguments are parsed from left to right and the first failure ends *)
(* the call: when several argument positions of a line are faulty, the     *)
(* error names the lowest faulty position N, no argument after position N  *)
(* is stored, and "too many args" is reported only when all the declared   *)
(* arguments have been parsed.                                             *)
(***************************************************************************)
C20_FirstFaultIsReported ==
  [][ (/\ call'.op = "processCommand"
       /\ call'.status = "returned"
       /\ Named(NameToken(call'.command)) # {})
      => LET def == commandDefinitions[Earliest(NameToken(call'.command))]
             type(n) == TypeNameOf(SubSeq(def.argTypes, n, n))
         IN
         def.argTypes \in {"is", "si"} =>
           \A a \in TwoArguments(def.argTypes), extra \in {"", " 1"} :
             call'.command = def.name \o " " \o a.t1 \o " " \o a.t2 \o extra =>
               /\ a.bad1 =>
                    /\ ~call'.ret
                    /\ response' = "parse error: invalid " \o type(1) \o " for arg 1"
                    /\ commandArgs'[1] = commandArgs[1]
               /\ (~a.bad1 /\ a.bad2) =>
                    /\ ~call'.ret
                    /\ response' = "parse error: invalid " \o type(2) \o " for arg 2"
               /\ (~a.bad1 /\ ~a.bad2) =>
                    IF extra = "" THEN call'.ret
                    ELSE /\ ~call'.ret
                         /\ response' = "parse error: too many args (expected 2)"
    ]_vars

\* both arguments faulty, after a call that left a string in the second
\* slot of the argument array
C20_Witness ==
  /\ Returned("processCommand")
  /\ numCommands >= 1
  /\ commandDefinitions[0] = [name |-> "ab", argTypes |-> "is", callback |-> 2]
  /\ call.command = "ab 1a \"a"
  /\ ~call.ret
  /\ response = "parse error: invalid int64_t for arg 1"
  /\ commandArgs[1].member = "asString"

\* the slots of the argument array from index k on are as before the step
SlotsKeptFrom(k) ==
  \A j \in k..(MAX_COMMAND_ARGS - 1) :
    IF commandArgs'[j].member = commandArgs[j].member
    THEN commandArgs'[j].value = commandArgs[j].value
    ELSE FALSE

\* the step is a processCommand call that returns false
FailedCall ==
  /\ call'.op = "processCommand"
  /\ call'.status = "returned"
  /\ ~call'.ret

(***************************************************************************)
(* C21 as stated  A failed processCommand is side-effect-free on the       *)
(* argument array: when the call returns false, every slot of commandArgs  *)
(* holds the same value as before the call.                                *)
(***************************************************************************)
C21_FailedCallKeepsArguments ==
  [][ FailedCall => SlotsKeptFrom(0) ]_vars

(***************************************************************************)
(* C21 as amended  A failed processCommand invokes no handler and leaves   *)
(* the registry unchanged, but the argument array only from the position   *)
(* of the failure on: the slots of the arguments parsed before the failure *)
(* hold the new values and the slot of the argument that failed may have   *)
(* been written; the slots after the failing position (all slots for an    *)
(* unknown name, those from N on for missing whitespace before arg N,      *)
(* those from the arity on for too many args) are as before the call.      *)
(***************************************************************************)
C21_FailedCallKeepsLaterSlots ==
  [][ FailedCall =>
        /\ UNCHANGED <<numCommands, commandDefinitions>>
        /\ call'.invoked = <<>>
        /\ \/ /\ Len(response') >= 34
              /\ SubSeq(response', 1, 34) = "parse error: unknown command name "
              /\ SlotsKeptFrom(0)
           \/ \E n \in 1..MAX_COMMAND_ARGS :
                /\ response' = "parse error: missing whitespace before arg " \o ToDec(n)
                /\ SlotsKeptFrom(n - 1)
           \/ \E n \in 1..MAX_COMMAND_ARGS, tag \in {"d", "u", "i", "s"} :
                /\ response' = "parse error: invalid " \o TypeNameOf(tag)
                                 \o " for arg " \o ToDec(n)
                /\ SlotsKeptFrom(n)
           \/ \E K \in 0..MAX_COMMAND_ARGS :
                /\ response' = "parse error: too many args (expected " \o ToDec(K) \o ")"
                /\ SlotsKeptFrom(K)
    ]_vars

\* the second call of a run fails on its second argument after the first
\* call, of an unknown name, left the array zeroed: the first slot holds
\* the integer parsed by the failed call
C21_Witness ==
  /\ Returned("processCommand")
  /\ nProcess = 2
  /\ call.responseBefore = "parse error: unknown command name b"
  /\ call.command = "ab 1 \"a"
  /\ ~call.ret
  /\ response = "parse error: invalid string for arg 2"
  /\ commandArgs[0] = [member |-> "asInt64", value |-> 1]


(***************************************************************************)
(* C22: argument type strings in the registry                              *)
(***************************************************************************)

ArgTypeTags == {"d", "i", "u", "s"}

InvalidArgtypePrefix == "parse error: invalid argtype "

BeginsWith(s, prefix) ==
  /\ Len(s) >= Len(prefix)
  /\ SubSeq(s, 1, Len(prefix)) = prefix

\* C22: every registered command's argument-type string has at most
\* MAX_COMMAND_ARGS characters, each of them one of d, i, u, s; so no
\* processCommand call ever leaves the "invalid argtype" message in
\* the response buffer.
C22_StoredArgTypesAreValid ==
  /\ \A k \in 0..(numCommands - 1) :
       /\ Strlen(commandDefinitions[k].argTypes) <= MAX_COMMAND_ARGS
       /\ \A j \in 0..(Strlen(commandDefinitions[k].argTypes) - 1) :
            At(commandDefinitions[k].argTypes, j) \in ArgTypeTags
  /\ ~BeginsWith(response, InvalidArgtypePrefix)

\* a registration with the tag x was refused after a command line had
\* been processed against a non-empty registry
C22_Witness ==
  /\ call.op = "registerCommand"
  /\ call.argTypes = "x"
  /\ ~call.ret
  /\ numCommands = 1
  /\ nProcess >= 1


(***************************************************************************)
(* parseString on its own: SpecParse draws a text and the contents of the  *)
(* output array, and applies parseString to them once.                     *)
(***************************************************************************)

\* what may follow a string argument on a line
AfterString == {"", " 1", "\"a"}

\* the texts given to parseString: quoted, with the closing quote missing,
\* and unquoted
ParseTexts ==
  { "\"" \o c \o "\"" \o t : c \in Contents(MaxPieces), t \in AfterString }
  \cup { "\"" \o c : c \in Contents(MaxPieces) }
  \cup { c \o t : c \in Contents(MaxPieces), t \in AfterString }

\* the asString array before the call: never written, zero-initialised, or
\* filled to its last byte by another member of the union
OutputsBefore ==
  { [k \in 0..MAX_COMMAND_ARG_SIZE |-> b] : b \in {Indet, 0, 122} }

InitParse ==
  /\ numCommands = 0
  /\ commandDefinitions = [k \in 0..(MAX_COMMANDS - 1) |-> ZeroCommand]
  /\ commandArgs = [k \in 0..(MAX_COMMAND_ARGS - 1) |-> ZeroArgument]
  /\ response = ""
  /\ halted = FALSE
  /\ nProcess = 0
  /\ \E buf \in ParseTexts, output \in OutputsBefore :
       call = [op |-> "input", buf |-> buf, output |-> output]

\* the state a parseString call with result r leaves
ParseStringCalled(r) ==
  /\ call' = [op |-> "parseString", buf |-> call.buf, before |-> call.output,
              readCount |-> r.readCount, output |-> r.output, written |-> r.written]
  /\ UNCHANGED <<numCommands, commandDefinitions, commandArgs, response, halted, nProcess>>

\* parseString(buf, output)
CallParseString ==
  /\ call.op = "input"
  /\ ParseStringCalled(ParseString(call.buf, call.output))

NextParse == CallParseString

SpecParse == InitParse /\ [][NextParse]_vars

(***************************************************************************)
(* C23: the output buffer of parseString                                   *)
(***************************************************************************)

\* the text a successful parseString call consumed, decoded by the
\* reference scan
DecodedByCall ==
  LET quoted == SubSeq(call.buf, 1, 1) = "\""
      consumed == SubSeq(call.buf, IF quoted THEN 2 ELSE 1, call.readCount)
  IN RefScan(consumed, quoted, <<>>)

ParseStringReturned == call.op = "parseString"

\* C23: parseString writes the output buffer only at the indices 0 to
\* MAX_COMMAND_ARG_SIZE and leaves the other bytes as they were; when it
\* reports success (a non-zero count), the text it consumed decodes to at
\* most MAX_COMMAND_ARG_SIZE bytes, these bytes are in the buffer from
\* index 0 on, and the byte at the index equal to their number is the
\* terminator.
C23_OutputStaysInsideBuffer ==
  ParseStringReturned =>
    /\ call.written \subseteq 0..MAX_COMMAND_ARG_SIZE
    /\ \A k \in (0..MAX_COMMAND_ARG_SIZE) \ call.written :
         call.output[k] = call.before[k]
    /\ call.readCount # 0 =>
         LET d == DecodedByCall IN
         /\ d.ok
         /\ d.rest = ""
         /\ Len(d.bytes) <= MAX_COMMAND_ARG_SIZE
         /\ call.output[Len(d.bytes)] = 0
         /\ \A k \in 1..Len(d.bytes) : call.output[k - 1] = d.bytes[k]
         /\ call.written = 0..Len(d.bytes)

\* a quoted text of exactly MAX_COMMAND_ARG_SIZE decoded bytes was parsed
\* into a buffer that held no terminator: the terminator is at the last
\* index of the buffer
C23_Witness ==
  /\ ParseStringReturned
  /\ call.buf = "\"a\\n\" 1"
  /\ call.before = [k \in 0..MAX_COMMAND_ARG_SIZE |-> 122]
  /\ call.readCount = 5
  /\ call.output = [k \in 0..MAX_COMMAND_ARG_SIZE |->
                      IF k = 0 THEN 97 ELSE IF k = 1 THEN 10 ELSE 0]


(***************************************************************************)
(* C24: the cursor of processCommand and the bytes it reads                *)
(***************************************************************************)

\* the number of times the cursor advanced along the moves given
Advances(moves) ==
  Cardinality({ k \in 1..(Len(moves) - 1) : moves[k] < moves[k + 1] })

\* C24: in a processCommand call on a terminated line, the cursor (the
\* command pointer, and the positions inside strToInt and parseString
\* counted from the start of the line) starts at 0, never moves backward
\* and never passes the index of the terminator; every byte read lies at
\* an index from 0 to that of the terminator; and the cursor advances at
\* most as many times as the line has bytes.
C24_CursorStaysInsideLine ==
  call.op = "processCommand" =>
    LET moves == call.scan.moves
        end == Len(call.command)
    IN /\ moves[1] = 0
       /\ \A k \in 1..(Len(moves) - 1) : moves[k] <= moves[k + 1]
       /\ \A k \in 1..Len(moves) : moves[k] <= end
       /\ \A x \in call.scan.reads : 0 <= x /\ x <= end
       /\ Advances(moves) <= end

\* a line that ends right after the sign of an integer argument was
\* scanned up to its terminator, which was read, and no further
C24_Witness ==
  /\ call.op = "processCommand"
  /\ call.command = "a -"
  /\ numCommands >= 1
  /\ commandDefinitions[0].argTypes = "i"
  /\ ~call.ret
  /\ call.scan.reads = 0..3
  /\ call.scan.moves[Len(call.scan.moves)] = 3

====
